---- MODULE Spec2Model ----
(***************************************************************************)
(* Model of the I2C bus scanner firmware (src/src/main.c).                 *)
(*                                                                         *)
(* main() brings up three GPIO pins and the I2C controller, then calls     *)
(* scan_i2c_bus() forever with a 5 s sleep between calls.  One scan sweeps *)
(* the addresses 0x00..0x7F row by row, probes the non-reserved ones with  *)
(* a one byte read and prints a grid followed by a summary.                *)
(*                                                                         *)
(* The environment (device_is_ready, gpio_pin_configure, gpio_pin_set,     *)
(* i2c_read) is nondeterministic: each call may succeed or fail.           *)
(***************************************************************************)
EXTENDS Integers, Sequences, FiniteSets, TLC

VARIABLES
    pc,             \* position of the single thread of control
    ret,            \* main's local `ret'
    retval,         \* value returned by main (meaningful when pc = "exit")
    steps,          \* history: bring-up calls made so far, with their outcome
    pin_cfg,        \* GPIO port 2: configuration of each pin
    pin_level,      \* GPIO port 2: output level of each pin
    row, col,       \* loop counters of scan_i2c_bus (uint8_t)
    found_addrs,    \* scan_i2c_bus's array found_addrs[MAX_FOUND_DEVICES]
    devices_found,  \* scan_i2c_bus's counter devices_found
    out,            \* printk output of the current scan, one entry per call
    log,            \* LOG_INF / LOG_ERR lines (since the current scan began)
    probes,         \* history: calls of test_i2c_address in the current scan
    writes,         \* history: indices of found_addrs written in this scan
    prev_found,     \* history: devices_found of the previous scan, -1 if none
    scanned         \* history: scan_i2c_bus has been called at least once

vars == <<pc, ret, retval, steps, pin_cfg, pin_level, row, col, found_addrs,
          devices_found, out, log, probes, writes, prev_found, scanned>>

scanVars == <<row, col, found_addrs, devices_found, out, probes, writes,
              prev_found, scanned>>

gpioVars == <<pin_cfg, pin_level>>

----------------------------------------------------------------------------
(* Program constants                                                       *)

GPIO_PIN_7 == 7
GPIO_PIN_9 == 9
GPIO_PIN_10 == 10
I2C_SCAN_START == 8
I2C_SCAN_END == 119
MAX_FOUND_DEVICES == 5
NumRows == 8
NumCols == 16
NumAddrs == NumRows * NumCols

Pins == {GPIO_PIN_7, GPIO_PIN_9, GPIO_PIN_10}

----------------------------------------------------------------------------
(* Bounds of the environment                                               *)

\* Number of bus addresses at which a device may answer.
MaxDevices == 9

\* Addresses at which a device may be attached, in the order in which the
\* bound admits them.  0x03 and 0x78 are reserved addresses.
DevicePool == <<8, 119, 3, 120, 9, 60, 72, 80, 26, 118, 104, 39>>

DeviceAddrs ==
    {DevicePool[i] : i \in 1..(IF MaxDevices < Len(DevicePool)
                               THEN MaxDevices ELSE Len(DevicePool))}

\* Negative errno values a driver call may return (-EIO, -EINVAL).
ErrRets == {-5, -22}

----------------------------------------------------------------------------
(* Formatting                                                              *)

HexDigits == <<"0", "1", "2", "3", "4", "5", "6", "7",
               "8", "9", "A", "B", "C", "D", "E", "F">>

\* printf's %02X for a value in 0..255
Hex2(n) == HexDigits[(n \div 16) + 1] \o HexDigits[(n % 16) + 1]

LogLine(lvl, fmt, args) == [lvl |-> lvl, fmt |-> fmt, args |-> args]

----------------------------------------------------------------------------
(* External calls                                                          *)

\* i2c_read(i2c_dev, &dummy, 1, addr): 0 when a device acknowledges, a
\* negative errno otherwise.  A device may answer or not at every probe.
test_i2c_address(addr) ==
    IF addr \in DeviceAddrs THEN {0, -5} ELSE {-5}

\* gpio_pin_configure / gpio_pin_set: 0 or a negative errno.
GpioResults == {0} \cup ErrRets

Step(name, ok) == [name |-> name, ok |-> ok]

----------------------------------------------------------------------------
Init ==
    /\ pc = "gpio_ready"
    /\ ret = 0
    /\ retval = 0
    /\ steps = <<>>
    /\ pin_cfg = [p \in Pins |-> "unconfigured"]
    /\ pin_level = [p \in Pins |-> -1]
    /\ row = 0
    /\ col = 0
    /\ found_addrs = [i \in 0..(MAX_FOUND_DEVICES - 1) |-> 0]
    /\ devices_found = 0
    /\ out = <<>>
    /\ log = <<>>
    /\ probes = <<>>
    /\ writes = {}
    /\ prev_found = -1
    /\ scanned = FALSE

----------------------------------------------------------------------------
(* main: bring-up                                                          *)

\* Variant: the result of device_is_ready(gpio_dev) is logged but not acted on.
CheckGpioReadyIgnored ==
    /\ pc = "gpio_ready"
    /\ \E ready \in BOOLEAN :
         /\ steps' = Append(steps, Step("gpio_ready", ready))
         /\ pc' = "cfg7"
         /\ IF ready
            THEN UNCHANGED log
            ELSE log' = Append(log, LogLine("ERR", "GPIO device not ready!", <<>>))
    /\ UNCHANGED <<ret, retval, gpioVars, scanVars>>

\* if (!device_is_ready(gpio_dev)) { LOG_ERR; return -1; }
CheckGpioReady ==
    /\ pc = "gpio_ready"
    /\ \E ready \in BOOLEAN :
         /\ steps' = Append(steps, Step("gpio_ready", ready))
         /\ IF ready
            THEN /\ pc' = "cfg7"
                 /\ UNCHANGED <<retval, log>>
            ELSE /\ pc' = "exit"
                 /\ retval' = -1
                 /\ log' = Append(log, LogLine("ERR", "GPIO device not ready!", <<>>))
    /\ UNCHANGED <<ret, gpioVars, scanVars>>

\* ret = gpio_pin_configure(gpio_dev, pin, flags); if (ret < 0) { LOG_ERR; return ret; }
GpioPinConfigure(at, pin, flags, level, next) ==
    /\ pc = at
    /\ \E r \in GpioResults :
         /\ ret' = r
         /\ steps' = Append(steps, Step(at, ~(r < 0)))
         /\ IF r < 0
            THEN /\ pc' = "exit"
                 /\ retval' = r
                 /\ log' = Append(log, LogLine("ERR", "Failed to configure GPIO pin %d: %d", <<pin, r>>))
                 /\ UNCHANGED gpioVars
            ELSE /\ pc' = next
                 /\ pin_cfg' = [pin_cfg EXCEPT ![pin] = flags]
                 /\ pin_level' = [pin_level EXCEPT ![pin] = level]
                 /\ UNCHANGED <<retval, log>>
    /\ UNCHANGED scanVars

\* ret = gpio_pin_set(gpio_dev, pin, value); if (ret < 0) { LOG_ERR; return ret; }
\* LOG_INF("GPIO 2.xx set ...");
GpioPinSet(at, pin, value, errfmt, okfmt, next) ==
    /\ pc = at
    /\ \E r \in GpioResults :
         /\ ret' = r
         /\ steps' = Append(steps, Step(at, ~(r < 0)))
         /\ IF r < 0
            THEN /\ pc' = "exit"
                 /\ retval' = r
                 /\ log' = Append(log, LogLine("ERR", errfmt, <<pin, r>>))
                 /\ UNCHANGED gpioVars
            ELSE /\ pc' = next
                 /\ pin_level' = [pin_level EXCEPT ![pin] = value]
                 /\ log' = Append(log, LogLine("INF", okfmt, <<>>))
                 /\ UNCHANGED <<retval, pin_cfg>>
    /\ UNCHANGED scanVars

ConfigurePin7 ==
    GpioPinConfigure("cfg7", GPIO_PIN_7, "GPIO_OUTPUT_ACTIVE", 1, "set7")

SetPin7 ==
    GpioPinSet("set7", GPIO_PIN_7, 1, "Failed to set GPIO pin %d high: %d",
               "GPIO 2.07 set HIGH", "cfg9")

ConfigurePin9 ==
    GpioPinConfigure("cfg9", GPIO_PIN_9, "GPIO_OUTPUT_INACTIVE", 0, "set9")

SetPin9 ==
    GpioPinSet("set9", GPIO_PIN_9, 0, "Failed to set GPIO pin %d low: %d",
               "GPIO 2.09 set LOW", "cfg10")

ConfigurePin10 ==
    GpioPinConfigure("cfg10", GPIO_PIN_10, "GPIO_OUTPUT_INACTIVE", 0, "set10")

SetPin10 ==
    GpioPinSet("set10", GPIO_PIN_10, 0, "Failed to set GPIO pin %d low: %d",
               "GPIO 2.10 set low", "i2c_ready")

\* Variant: the `return -1' after "I2C device not ready!" is missing.
CheckI2cReadyNoReturn ==
    /\ pc = "i2c_ready"
    /\ \E ready \in BOOLEAN :
         /\ steps' = Append(steps, Step("i2c_ready", ready))
         /\ pc' = "settle"
         /\ log' = (IF ready THEN log
                    ELSE Append(log, LogLine("ERR", "I2C device not ready!", <<>>)))
                   \o <<LogLine("INF", "I2C device is ready", <<>>),
                        LogLine("INF", "Starting I2C bus scan...", <<>>),
                        LogLine("INF", "-----------------------------------", <<>>)>>
    /\ UNCHANGED <<ret, retval, gpioVars, scanVars>>

\* if (!device_is_ready(i2c_dev)) { LOG_ERR; return -1; }  LOG_INF x3
CheckI2cReady ==
    /\ pc = "i2c_ready"
    /\ \E ready \in BOOLEAN :
         /\ steps' = Append(steps, Step("i2c_ready", ready))
         /\ IF ready
            THEN /\ pc' = "settle"
                 /\ log' = log \o <<LogLine("INF", "I2C device is ready", <<>>),
                                    LogLine("INF", "Starting I2C bus scan...", <<>>),
                                    LogLine("INF", "-----------------------------------", <<>>)>>
                 /\ UNCHANGED retval
            ELSE /\ pc' = "exit"
                 /\ retval' = -1
                 /\ log' = Append(log, LogLine("ERR", "I2C device not ready!", <<>>))
    /\ UNCHANGED <<ret, gpioVars, scanVars>>

\* k_msleep(100); then the while (1) loop is entered
SettleDelay ==
    /\ pc = "settle"
    /\ pc' = "scan_begin"
    /\ UNCHANGED <<ret, retval, steps, gpioVars, scanVars, log>>

----------------------------------------------------------------------------
(* scan_i2c_bus                                                            *)

\* uint8_t addr = (row * 16) + col;
Addr(r, c) == ((r * NumCols) + c) % 256

\* Variant: upper limit of the scan range off by one (0x78 is probed).
ReservedHighOffByOne(addr) == addr < I2C_SCAN_START \/ addr > I2C_SCAN_END + 1

\* Variant: lower limit of the scan range off by one (0x08 is skipped).
ReservedLowOffByOne(addr) == addr <= I2C_SCAN_START \/ addr > I2C_SCAN_END

\* if (addr < I2C_SCAN_START || addr > I2C_SCAN_END)
Reserved(addr) == addr < I2C_SCAN_START \/ addr > I2C_SCAN_END

\* Variant: capacity test with <= (writes one slot past the array).
WriteIndexOffByOne(n) == IF n <= MAX_FOUND_DEVICES THEN {n} ELSE {}

\* if (devices_found < MAX_FOUND_DEVICES) found_addrs[devices_found] = addr;
\* the set of indices of found_addrs that the statement writes
WriteIndex(n) == IF n < MAX_FOUND_DEVICES THEN {n} ELSE {}

\* Variant: the increment is inside the capacity test (the count saturates).
IncFoundSaturating(n) == IF n < MAX_FOUND_DEVICES THEN n + 1 ELSE n

\* devices_found++;
IncFound(n) == n + 1

\* Variant: the test of the probe's result is inverted.
CellInverted(addr, r) == IF r # 0 THEN Hex2(addr) \o " " ELSE "-- "

\* printk("%02X ", addr) when the probe returned 0, printk("-- ") otherwise
Cell(addr, r) == IF r = 0 THEN Hex2(addr) \o " " ELSE "-- "

\* Variant: every slot is logged, without the found_addrs[i] != 0 test.
DeviceLinesUnfiltered(fa) ==
    [k \in 1..MAX_FOUND_DEVICES |->
        LogLine("INF", "Device[%d] -> 0x%02X", <<k - 1, fa[k - 1]>>)]

\* for (i = 0; i < MAX_FOUND_DEVICES; i++)
\*     if (found_addrs[i] != 0) LOG_INF("Device[%d] -> 0x%02X", i, found_addrs[i]);
DeviceLines(fa) ==
    LET all == [k \in 1..MAX_FOUND_DEVICES |->
                   LogLine("INF", "Device[%d] -> 0x%02X", <<k - 1, fa[k - 1]>>)]
    IN  SelectSeq(all, LAMBDA l : l.args[2] # 0)

\* Variant: found_addrs and devices_found keep their values from the last call
\* (static storage without re-initialisation).
ScanBeginNoClear ==
    /\ pc = "scan_begin"
    /\ log' = <<LogLine("INF", "Scanning I2C bus...", <<>>),
                LogLine("INF", "     0  1  2  3  4  5  6  7  8  9  A  B  C  D  E  F", <<>>)>>
    /\ out' = <<>>
    /\ probes' = <<>>
    /\ writes' = {}
    /\ prev_found' = IF scanned THEN devices_found ELSE -1
    /\ scanned' = TRUE
    /\ row' = 0
    /\ pc' = "row"
    /\ UNCHANGED <<ret, retval, steps, gpioVars, col, found_addrs, devices_found>>

\* uint8_t found_addrs[MAX_FOUND_DEVICES] = {0}; int devices_found = 0;
\* LOG_INF("Scanning I2C bus..."); LOG_INF(header); row = 0
ScanBegin ==
    /\ pc = "scan_begin"
    /\ found_addrs' = [i \in 0..(MAX_FOUND_DEVICES - 1) |-> 0]
    /\ devices_found' = 0
    /\ log' = <<LogLine("INF", "Scanning I2C bus...", <<>>),
                LogLine("INF", "     0  1  2  3  4  5  6  7  8  9  A  B  C  D  E  F", <<>>)>>
    /\ out' = <<>>
    /\ probes' = <<>>
    /\ writes' = {}
    /\ prev_found' = IF scanned THEN devices_found ELSE -1
    /\ scanned' = TRUE
    /\ row' = 0
    /\ pc' = "row"
    /\ UNCHANGED <<ret, retval, steps, gpioVars, col>>

\* row < 8: printk("%02X: ", row * 16); col = 0
RowBegin ==
    /\ pc = "row"
    /\ row < NumRows
    /\ out' = Append(out, Hex2(row * NumCols) \o ": ")
    /\ col' = 0
    /\ pc' = "col"
    /\ UNCHANGED <<ret, retval, steps, gpioVars, row, found_addrs, devices_found,
                   log, probes, writes, prev_found, scanned>>

\* reserved address: printk("   "); continue;
SkipReserved ==
    /\ pc = "col"
    /\ col < NumCols
    /\ Reserved(Addr(row, col))
    /\ out' = Append(out, "   ")
    /\ col' = (col + 1) % 256
    /\ UNCHANGED <<pc, ret, retval, steps, gpioVars, row, found_addrs,
                   devices_found, log, probes, writes, prev_found, scanned>>

\* if (test_i2c_address(addr) == 0) { print, store, count } else { print "-- " }
Probe ==
    /\ pc = "col"
    /\ col < NumCols
    /\ ~Reserved(Addr(row, col))
    /\ LET addr == Addr(row, col) IN
       \E r \in test_i2c_address(addr) :
         /\ probes' = Append(probes, [addr |-> addr, ret |-> r])
         /\ out' = Append(out, Cell(addr, r))
         /\ IF r = 0
            THEN /\ found_addrs' = [i \in DOMAIN found_addrs |->
                                      IF i \in WriteIndex(devices_found)
                                      THEN addr ELSE found_addrs[i]]
                 /\ writes' = writes \cup WriteIndex(devices_found)
                 /\ devices_found' = IncFound(devices_found)
            ELSE UNCHANGED <<found_addrs, writes, devices_found>>
    /\ col' = (col + 1) % 256
    /\ UNCHANGED <<pc, ret, retval, steps, gpioVars, row, log, prev_found, scanned>>

\* col == 16: printk("\n"); row++
RowEnd ==
    /\ pc = "col"
    /\ ~(col < NumCols)
    /\ out' = Append(out, "\n")
    /\ row' = (row + 1) % 256
    /\ pc' = "row"
    /\ UNCHANGED <<ret, retval, steps, gpioVars, col, found_addrs, devices_found,
                   log, probes, writes, prev_found, scanned>>

\* row == 8: LOG_INF("Scan complete. Found %d device(s)."), the Device[] lines,
\* return to main
Report ==
    /\ pc = "row"
    /\ ~(row < NumRows)
    /\ log' = log \o <<LogLine("INF", "Scan complete. Found %d device(s).",
                               <<devices_found>>)>>
                  \o DeviceLines(found_addrs)
    /\ pc' = "sleep"
    /\ UNCHANGED <<ret, retval, steps, gpioVars, scanVars>>

\* Variant: no while (1) around the scan; main returns 0 after the sleep.
SleepThenReturn ==
    /\ pc = "sleep"
    /\ log' = log \o <<LogLine("INF", "-----------------------------------", <<>>),
                       LogLine("INF", "Waiting 5 seconds before next scan...", <<>>)>>
    /\ pc' = "exit"
    /\ retval' = 0
    /\ UNCHANGED <<ret, steps, gpioVars, scanVars>>

\* LOG_INF("----"); LOG_INF("Waiting 5 seconds before next scan..."); k_msleep(5000);
Sleep ==
    /\ pc = "sleep"
    /\ log' = log \o <<LogLine("INF", "-----------------------------------", <<>>),
                       LogLine("INF", "Waiting 5 seconds before next scan...", <<>>)>>
    /\ pc' = "scan_begin"
    /\ UNCHANGED <<ret, retval, steps, gpioVars, scanVars>>

----------------------------------------------------------------------------
Next ==
    \/ CheckGpioReady
    \/ ConfigurePin7
    \/ SetPin7
    \/ ConfigurePin9
    \/ SetPin9
    \/ ConfigurePin10
    \/ SetPin10
    \/ CheckI2cReady
    \/ SettleDelay
    \/ ScanBegin
    \/ RowBegin
    \/ SkipReserved
    \/ Probe
    \/ RowEnd
    \/ Report
    \/ Sleep

Spec == Init /\ [][Next]_vars

\* The firmware has a single thread; every call it makes returns (i2c_read
\* returns on completion or transport timeout, k_msleep returns after the
\* delay), so the thread always takes its next step.
LiveSpec == Spec /\ WF_vars(Next)

----------------------------------------------------------------------------
(* Properties                                                              *)

Min(a, b) == IF a < b THEN a ELSE b

\* the addresses passed to test_i2c_address in the current scan, in call order
ProbedAddrs == [i \in 1..Len(probes) |-> probes[i].addr]

\* the addresses whose probe returned 0 in the current scan
Responded == {probes[i].addr : i \in {j \in 1..Len(probes) : probes[j].ret = 0}}

\* the addresses whose probe failed in the current scan
Failed == {probes[i].addr : i \in {j \in 1..Len(probes) : probes[j].ret # 0}}

\* the i-th lowest element (i from 0) of a set of numbers
NthLowest(P, i) == CHOOSE a \in P : Cardinality({b \in P : b < a}) = i

\* the slots of found_addrs that hold an address
StoredSlots == {i \in DOMAIN found_addrs : found_addrs[i] # 0}

\* the sweep of the current scan is over and its results are still in place
SweepDone ==
    \/ pc = "row" /\ row = 8
    \/ pc = "sleep"
    \/ pc = "scan_begin" /\ scanned

\* the summary lines of scan_i2c_bus in the log
ScanLog ==
    SelectSeq(log, LAMBDA l : l.fmt \in {"Scan complete. Found %d device(s).",
                                         "Device[%d] -> 0x%02X"})

BringUpOrder ==
    <<"gpio_ready", "cfg7", "set7", "cfg9", "set9", "cfg10", "set10", "i2c_ready">>

StepOk(name) == \E i \in 1..Len(steps) : steps[i].name = name /\ steps[i].ok

StepFailed(name) == \E i \in 1..Len(steps) : steps[i].name = name /\ ~steps[i].ok

AnyPinConfigured == \E p \in Pins : pin_cfg[p] # "unconfigured"

\* C1: in every scan, test_i2c_address is never called with an address in
\* 0x00..0x07 or 0x78..0x7F, whichever devices answer.
C1_ReservedNeverProbed ==
    \A i \in 1..Len(probes) :
        probes[i].addr \notin ((0..7) \cup (120..127))

\* a sweep has passed all 128 addresses, reserved ones included, and probed
C1_Witness ==
    /\ pc = "sleep"
    /\ Len(out) = 144
    /\ Len(probes) > 0

\* C2: every address 0x08..0x77 is probed exactly once per scan, in strictly
\* ascending order: the k-th probe of a scan is at 0x08 + k - 1, and a
\* finished sweep has made exactly 112 probes whatever their results.
C2_EachScannableProbedOnceAscending ==
    /\ ProbedAddrs = [i \in 1..Len(probes) |-> 8 + i - 1]
    /\ SweepDone => Len(probes) = 112
    /\ SweepDone => \A a \in 8..119 :
           Cardinality({i \in 1..Len(probes) : probes[i].addr = a}) = 1

\* a finished sweep in which some probes succeeded and some failed
C2_Witness ==
    /\ pc = "sleep"
    /\ Responded # {}
    /\ Failed # {}

\* C3 as stated: devices_found stays within 0..MAX_FOUND_DEVICES.
C3_Original ==
    devices_found \in 0..MAX_FOUND_DEVICES

\* C3 amended: devices_found is the uncapped tally of the scan: it equals the
\* number of successful probes so far (at most 112) and may exceed
\* MAX_FOUND_DEVICES; the number of stored entries is
\* min(devices_found, MAX_FOUND_DEVICES), hence within 0..MAX_FOUND_DEVICES.
C3_Amended ==
    /\ devices_found = Cardinality(Responded)
    /\ devices_found \in 0..112
    /\ Cardinality(StoredSlots) = Min(devices_found, 5)
    /\ Cardinality(StoredSlots) \in 0..5

\* more devices answered than the array holds
C3_Witness ==
    /\ pc = "sleep"
    /\ devices_found > MAX_FOUND_DEVICES

\* C4: at the end of a scan in which the set P answered, the first
\* min(|P|, 5) slots of found_addrs hold the lowest addresses of P in
\* ascending order, every later slot is 0, and no index >= 5 is ever written;
\* devices at 0x08 and 0x77 only give [0x08, 0x77, 0, 0, 0].
C4_StoredAreLowestAscending ==
    /\ writes \subseteq 0..4
    /\ SweepDone =>
         LET P == Responded
             k == Min(Cardinality(P), 5)
         IN  /\ \A i \in 0..(k - 1) :
                   /\ found_addrs[i] = NthLowest(P, i)
                   /\ found_addrs[i] \in 8..119
             /\ \A i \in 0..(k - 2) : found_addrs[i] < found_addrs[i + 1]
             /\ \A i \in k..4 : found_addrs[i] = 0
             /\ P = {8, 119} =>
                   found_addrs = [i \in 0..4 |-> IF i = 0 THEN 8
                                                 ELSE IF i = 1 THEN 119 ELSE 0]

\* more than five devices answered, the two boundary addresses among them
C4_Witness ==
    /\ pc = "sleep"
    /\ Cardinality(Responded) > 5
    /\ {8, 119} \subseteq Responded

\* C5: the array and the count are cleared at the start of every scan before
\* any entry is written, so what a scan stores and counts depends on the
\* probes of that scan only, also after a scan that found more.
C5_ClearedEachCycle ==
    /\ (pc = "row" /\ row = 0) =>
          /\ \A i \in 0..4 : found_addrs[i] = 0
          /\ devices_found = 0
          /\ writes = {}
    /\ SweepDone =>
          /\ {found_addrs[i] : i \in StoredSlots} \subseteq Responded
          /\ Cardinality(StoredSlots) = Min(Cardinality(Responded), 5)
          /\ devices_found = Cardinality(Responded)

\* a scan that found fewer devices than the scan before it
C5_Witness ==
    /\ pc = "sleep"
    /\ prev_found >= 5
    /\ devices_found = 2
    /\ Cardinality(StoredSlots) = 2

\* C6: a failing bring-up step is the last step made: main returns a negative
\* value, scan_i2c_bus is never called and no probe is issued.
C6_BringUpFailureAborts ==
    \A i \in 1..Len(steps) :
        ~steps[i].ok =>
            /\ i = Len(steps)
            /\ pc = "exit"
            /\ retval < 0
            /\ ~scanned
            /\ probes = <<>>
            /\ out = <<>>

\* gpio_pin_set failed for pin 9 after four successful steps
C6_Witness ==
    /\ pc = "exit"
    /\ Len(steps) = 5
    /\ steps[5] = Step("set9", FALSE)
    /\ retval < 0

\* C7: once the loop is entered it never ends: every scan that begins reaches
\* the sleep, every sleep is followed by another scan, and main never returns
\* after a scan has started, whatever the probes return.
C7_PollLoopForever ==
    /\ (pc = "scan_begin") ~> (pc = "sleep")
    /\ (pc = "sleep") ~> (pc = "scan_begin")
    /\ [](scanned => pc # "exit")

\* a second scan has completed, with failed and successful probes
C7_Witness ==
    /\ pc = "sleep"
    /\ prev_found >= 0
    /\ Failed # {}
    /\ Responded # {}

\* C8: a scan prints 8 rows labelled 00, 10, .., 70 of 16 cells each, one per
\* address in ascending order: blank for a reserved address, the address in
\* hex when its probe returned 0, "--" when it failed; with no device
\* answering the count is 0 and every scannable cell is "--".
C8_GridRendering ==
    SweepDone =>
        /\ Len(out) = 8 * 18
        /\ \A r \in 0..7 :
              /\ out[r * 18 + 1] =
                    <<"00: ", "10: ", "20: ", "30: ", "40: ", "50: ", "60: ", "70: ">>[r + 1]
              /\ out[r * 18 + 18] = "\n"
              /\ \A c \in 0..15 :
                    LET a == r * 16 + c
                        cell == out[r * 18 + 2 + c]
                    IN  /\ (a < 8 \/ a > 119) <=> cell = "   "
                        /\ a \in Responded <=> cell = Hex2(a) \o " "
                        /\ a \in Failed <=> cell = "-- "
        /\ 8 \in Responded => out[10] = "08 "
        /\ 60 \in Responded => out[3 * 18 + 2 + 12] = "3C "
        /\ 119 \in Responded => out[7 * 18 + 2 + 7] = "77 "
        /\ Responded = {} => devices_found = 0

\* a finished scan with a device at 0x3C and none at 0x09
C8_Witness ==
    /\ pc = "sleep"
    /\ 60 \in Responded
    /\ 9 \in Failed

\* C9: the summary is logged only after the full sweep: the total is the
\* number of successful probes (uncapped), followed by one line (i, address)
\* for each of the min(total, 5) stored entries and none for an unused slot.
C9_SummaryLog ==
    /\ ScanLog # <<>> => Len(probes) = 112
    /\ pc = "sleep" =>
         LET n == Cardinality(Responded)
             k == Min(n, 5)
         IN  /\ Len(ScanLog) = 1 + k
             /\ ScanLog[1].fmt = "Scan complete. Found %d device(s)."
             /\ ScanLog[1].args = <<n>>
             /\ \A i \in 0..(k - 1) :
                   /\ ScanLog[i + 2].fmt = "Device[%d] -> 0x%02X"
                   /\ ScanLog[i + 2].args = <<i, found_addrs[i]>>
                   /\ found_addrs[i] = NthLowest(Responded, i)

\* a summary of a scan that found more devices than it stored
C9_Witness ==
    /\ pc = "sleep"
    /\ Cardinality(Responded) > 5
    /\ Len(ScanLog) = 6

\* C10 as stated: both controllers are verified ready before any pin is
\* configured, startup aborts with no pin configured when either is not
\* ready, and no probe precedes the I2C readiness check.
C10_Original ==
    /\ AnyPinConfigured => StepOk("gpio_ready") /\ StepOk("i2c_ready")
    /\ (StepFailed("gpio_ready") \/ StepFailed("i2c_ready")) =>
          pc = "exit" /\ ~AnyPinConfigured
    /\ probes # <<>> => StepOk("i2c_ready")

\* C10 amended: bring-up runs once in the order GPIO readiness, pin 7
\* (output, high), pin 9 and pin 10 (output, low), I2C readiness.  With the
\* GPIO controller not ready startup aborts before any pin is configured;
\* with the I2C controller not ready it aborts after the pins have been
\* configured; no probe is issued before the I2C controller is verified ready.
C10_Amended ==
    /\ Len(steps) <= Len(BringUpOrder)
    /\ \A i \in 1..Len(steps) : steps[i].name = BringUpOrder[i]
    /\ AnyPinConfigured => StepOk("gpio_ready")
    /\ StepFailed("gpio_ready") => pc = "exit" /\ ~AnyPinConfigured
    /\ (StepOk("i2c_ready") \/ StepFailed("i2c_ready")) =>
          /\ pin_cfg = [p \in Pins |-> IF p = 7 THEN "GPIO_OUTPUT_ACTIVE"
                                       ELSE "GPIO_OUTPUT_INACTIVE"]
          /\ pin_level = [p \in Pins |-> IF p = 7 THEN 1 ELSE 0]
    /\ StepFailed("i2c_ready") => pc = "exit"
    /\ (probes # <<>> \/ scanned) => StepOk("i2c_ready")

\* the I2C controller is not ready: main returns with the pins configured
C10_Witness ==
    /\ pc = "exit"
    /\ StepFailed("i2c_ready")
    /\ pin_level[7] = 1
    /\ pin_level[9] = 0
    /\ pin_level[10] = 0

====
